---- MODULE Spec2Model ----
(***************************************************************************)
(* Message-generation stage of the newspaper reporter:                     *)
(*   NewspaperMessageGenerator.run / log_payload,                          *)
(*   SummarizationResource.parse_messages,                                 *)
(*   TrackNameSentimentResource.parse_messages.                            *)
(*                                                                         *)
(* Numbers are integers: sentiments and scores stand for fixed-point       *)
(* values (tenths), a mean is an exact reduced fraction.  A JSON object    *)
(* (a Python dict) is a sequence of [k, v] entries in insertion order.     *)
(* A language tag is the sequence of its "-"-separated subtags.            *)
(***************************************************************************)
EXTENDS Integers, Sequences, FiniteSets, TLC

(* ------------------------------ bounds --------------------------------- *)
MaxBatch == 2
MaxParsers == 2
MaxEntities == 2
MaxSummaries == 3
NumUuids == 30
MaxRewrites == 1

(* ------------------------- program constants --------------------------- *)
MAX_LOGGED_PAYLOADS == 25

UNREPORTABLE_PROCESSORS == {"FindBestSplitFromTimeseries", "SplitByFacet", "ExpandQuery"}

(* ------------------------- values and dicts ---------------------------- *)
\* Python values that end up in Fact fields, in one record shape so that any
\* two of them can be compared.
NoneVal == [tag |-> "none", s |-> "", n |-> 0, d |-> 1]

Str(s) == [tag |-> "str", s |-> s, n |-> 0, d |-> 1]

Num(n) == [tag |-> "num", s |-> "", n |-> n, d |-> 1]

Abs(n) == IF n < 0 THEN -n ELSE n

RECURSIVE Gcd(_, _)
Gcd(a, b) == IF b = 0 THEN a ELSE Gcd(b, a % b)

\* a / b for b > 0, as the number it denotes (equal quotients are equal values)
Quot(a, b) ==
    LET g == Gcd(Abs(a), b)
    IN  [tag |-> "num", s |-> "", n |-> a \div g, d |-> b \div g]

\* dict[k] = v : replaces the value of an existing key in place, else appends
Put(dict, k, v) ==
    IF \E x \in 1..Len(dict) : dict[x].k = k
    THEN [x \in 1..Len(dict) |-> IF dict[x].k = k THEN [k |-> k, v |-> v] ELSE dict[x]]
    ELSE Append(dict, [k |-> k, v |-> v])

\* dict.get(k, None) for a dict of strings; None and "" are both falsy, and the
\* only use of the result is a truthiness test, so None is written ""
GetStr(dict, k) ==
    IF \E x \in 1..Len(dict) : dict[x].k = k
    THEN dict[CHOOSE x \in 1..Len(dict) : dict[x].k = k].v
    ELSE ""

RECURSIVE SumSeq(_)
SumSeq(q) == IF q = << >> THEN 0 ELSE Head(q) + SumSeq(Tail(q))

Min2(a, b) == IF a < b THEN a ELSE b

(* --------------------------- Fact / Message ---------------------------- *)
Fact(corpus, corpus_type, timestamp_from, timestamp_to, timestamp_type, analysis_type, result_key, result_value, outlierness, extra) ==
    [corpus |-> corpus, corpus_type |-> corpus_type,
     timestamp_from |-> timestamp_from, timestamp_to |-> timestamp_to,
     timestamp_type |-> timestamp_type, analysis_type |-> analysis_type,
     result_key |-> result_key, result_value |-> result_value,
     outlierness |-> outlierness, extra |-> extra]

Message(fact) == [facts |-> <<fact>>]

main_fact(m) == m.facts[1]

\* Fact.__eq__ : all fields compare equal by value
FactEq(f, g) == f = g

build_corpus_fields(task_result) == <<Str(task_result.dataset), "dataset">>

(* ----------------------- call outcomes of a parser --------------------- *)
Returned(msgs) == [kind |-> "ok", msgs |-> msgs, error |-> ""]

Raised(error) == [kind |-> "raise", msgs |-> << >>, error |-> error]

(* ----------------------- SummarizationResource ------------------------- *)
\* zip(result["summary"], interestingness["sentence_scores"]) : pairs up to the
\* shorter of the two
SummaryPairs(tr) ==
    LET payload == tr.task_result
        npairs == Min2(Len(payload.result.summary), Len(payload.sentence_scores))
    IN  [x \in 1..npairs |-> <<payload.result.summary[x], payload.sentence_scores[x]>>]

\* one candidate Message per pair, outlierness = sentence score * overall
SummaryCandidates(tr) ==
    LET cf == build_corpus_fields(tr)
        pairs == SummaryPairs(tr)
    IN  [x \in 1..Len(pairs) |->
            Message(Fact(cf[1], cf[2], NoneVal, NoneVal, "all_time", "Summarization", "Summary",
                         Str(pairs[x][1]), Num(pairs[x][2] * tr.task_result.overall), NoneVal))]

\* the loop of max(iterable, key=...): the first item whose key no later item
\* strictly exceeds
RECURSIVE MaxByOutlierness(_, _)
MaxByOutlierness(best, rest) ==
    IF rest = << >> THEN best
    ELSE IF main_fact(Head(rest)).outlierness.n > main_fact(best).outlierness.n
         THEN MaxByOutlierness(Head(rest), Tail(rest))
         ELSE MaxByOutlierness(best, Tail(rest))

\* max(*messages, key=...) : no argument is a TypeError; a single argument is
\* taken as the iterable to search, and a Message is not iterable; two or more
\* arguments are compared with each other
max_unpacked(messages) ==
    IF Len(messages) = 0 THEN Raised("TypeError")
    ELSE IF Len(messages) = 1 THEN Raised("TypeError")
    ELSE Returned(<<MaxByOutlierness(Head(messages), Tail(messages))>>)

SummarizationParse(tr) ==
    IF tr.processor # "Summarization" THEN Returned(<< >>)
    ELSE IF tr.task_result.isNone THEN Raised("TypeError")
    ELSE IF ~tr.task_result.result.present \/ ~tr.task_result.result.hasSummary THEN Raised("KeyError")
    ELSE max_unpacked(SummaryCandidates(tr))

(* --------------------- TrackNameSentimentResource ---------------------- *)
\* language.split("-")[0]
PrimarySubtag(language) == language[1]

RECURSIVE FirstTruthy(_)
FirstTruthy(names) ==
    IF names = << >> THEN ""
    ELSE IF Head(names) # "" THEN Head(names)
    ELSE FirstTruthy(Tail(names))

\* the display name of an entity: requested language, English, any name, key
EntityName(entity, language) ==
    LET name_map == entity.names
    IN  FirstTruthy(<<GetStr(name_map, language),
                      GetStr(name_map, "en"),
                      IF name_map # << >> THEN name_map[1].v ELSE "",
                      entity.key>>)

\* the years of one entity that are kept: sentiment != 0 or interestingness != 0
RECURSIVE RetainedYears(_, _)
RetainedYears(ys, years) ==
    IF ys = << >> THEN years
    ELSE LET y == Head(ys)
         IN  RetainedYears(Tail(ys),
                 IF y.sentiment # 0 \/ y.interestingness # 0
                 THEN Put(years, y.year, [sentiment |-> y.sentiment, interestingness |-> y.interestingness])
                 ELSE years)

\* entries[name] = years, entity after entity
RECURSIVE BuildEntries(_, _, _)
BuildEntries(entities, language, entries) ==
    IF entities = << >> THEN entries
    ELSE BuildEntries(Tail(entities), language,
             Put(entries, EntityName(Head(entities), language),
                 RetainedYears(Head(entities).years, << >>)))

\* tuple order of (sentiment, year)
TupleLess(a, b) == a[1] < b[1] \/ (a[1] = b[1] /\ a[2] < b[2])

SentimentYearPairs(years) == {<<years[x].v.sentiment, years[x].k>> : x \in 1..Len(years)}

MaxTuple(S) == CHOOSE a \in S : \A b \in S : b = a \/ TupleLess(b, a)

MinTuple(S) == CHOOSE a \in S : \A b \in S : b = a \/ TupleLess(a, b)

MaxOf(S) == CHOOSE a \in S : \A b \in S : b <= a

MinOf(S) == CHOOSE a \in S : \A b \in S : a <= b

EntityKey(entry) == "[ENTITY:NAME:" \o entry \o "]"

Link(uuid) == Str("[LINK:" \o ToString(uuid) \o "]")

\* the four messages of one entry with at least one retained year
EntryMessages(tr, entry, years) ==
    LET cf == build_corpus_fields(tr)
        max_interestingness == MaxOf({years[x].v.interestingness : x \in 1..Len(years)})
        max_pair == MaxTuple(SentimentYearPairs(years))
        min_pair == MinTuple(SentimentYearPairs(years))
        mean_sentiment == Quot(SumSeq([x \in 1..Len(years) |-> years[x].v.sentiment]), Len(years))
        min_year == MinOf({years[x].k : x \in 1..Len(years)})
        max_year == MaxOf({years[x].k : x \in 1..Len(years)})
        year_count == Len(years)
    IN  << Message(Fact(cf[1], cf[2], Num(min_year), Num(max_year), "between_years",
                        "TrackNameSentiment:CountYears", EntityKey(entry), Num(year_count),
                        Num(max_interestingness), Link(tr.uuid))),
           Message(Fact(cf[1], cf[2], Num(min_year), Num(max_year), "between_years",
                        "TrackNameSentiment:Mean", EntityKey(entry), mean_sentiment,
                        Num(max_interestingness), Link(tr.uuid))),
           Message(Fact(cf[1], cf[2], Num(min_pair[2]), Num(min_pair[2]), "during_year",
                        "TrackNameSentiment:Min", EntityKey(entry), Num(min_pair[1]),
                        Num(max_interestingness), Link(tr.uuid))),
           Message(Fact(cf[1], cf[2], Num(max_pair[2]), Num(max_pair[2]), "between_years",
                        "TrackNameSentiment:Max", EntityKey(entry), Num(max_pair[1]),
                        Num(max_interestingness), Link(tr.uuid))) >>

RECURSIVE EntriesMessages(_, _)
EntriesMessages(tr, entries) ==
    IF entries = << >> THEN << >>
    ELSE (IF Head(entries).v = << >> THEN << >>
          ELSE EntryMessages(tr, Head(entries).k, Head(entries).v))
         \o EntriesMessages(tr, Tail(entries))

TrackNameSentimentParse(tr, language) ==
    IF tr.processor # "TrackNameSentiment" THEN Returned(<< >>)
    ELSE IF tr.task_result.isNone THEN Raised("TypeError")
    ELSE LET entries == BuildEntries(tr.task_result.result.entities, PrimarySubtag(language), << >>)
         IN  IF \E x \in 1..Len(entries) : entries[x].k = ""
             THEN Raised("StopIteration")
             ELSE Returned(EntriesMessages(tr, entries))

(* ------------------------------ log_payload ---------------------------- *)
\* A capture directory is the set of its files [uuid, mtime].
\* the sort without reverse=True: oldest first
RECURSIVE SortByMtimeAsc(_)
SortByMtimeAsc(files) ==
    IF files = {} THEN << >>
    ELSE LET oldest == CHOOSE f \in files : \A g \in files : f.mtime <= g.mtime
         IN  <<oldest>> \o SortByMtimeAsc(files \ {oldest})

\* logged_payloads.sort(key=mtime, reverse=True)
RECURSIVE SortByMtimeDesc(_)
SortByMtimeDesc(files) ==
    IF files = {} THEN << >>
    ELSE LET newest == CHOOSE f \in files : \A g \in files : g.mtime <= f.mtime
         IN  <<newest>> \o SortByMtimeDesc(files \ {newest})

\* logged_payloads[MAX_LOGGED_PAYLOADS:] : the files that are unlinked
Unlinked(logged_payloads) ==
    IF Len(logged_payloads) > MAX_LOGGED_PAYLOADS
    THEN {logged_payloads[x] : x \in (MAX_LOGGED_PAYLOADS + 1)..Len(logged_payloads)}
    ELSE {}

\* write <uuid>.txt (replacing a file of that name) at time mtime, then rotate
log_payload(dir, uuid, mtime) ==
    LET written == {f \in dir : f.uuid # uuid} \cup {[uuid |-> uuid, mtime |-> mtime]}
    IN  written \ Unlinked(SortByMtimeDesc(written))

(* ------------------------ NewspaperMessageGenerator -------------------- *)
\* the test written as: task_result.task_result.get("result") is None
ResultIsNone(tr) == ~tr.task_result.result.present

\* not task_result.task_result.get("result") : the subsection is absent or empty
ResultIsFalsy(tr) ==
    \/ ~tr.task_result.result.present
    \/ (~tr.task_result.result.hasSummary /\ tr.task_result.result.entities = << >>)

\* registered parsers other than the two resources of this repository: one that
\* always raises, one that reports WrongResourceException, one that returns the
\* same three messages (the first and the last with equal facts) for any record
FixedMessages ==
    LET fa == Fact(Str("all"), "fixed", NoneVal, NoneVal, "all_time", "Fixed", "A", Num(1), Num(1), NoneVal)
        fb == Fact(Str("all"), "fixed", NoneVal, NoneVal, "all_time", "Fixed", "B", Num(2), Num(1), NoneVal)
    IN  <<Message(fa), Message(fb), Message(fa)>>

\* positional parameters parse_messages takes besides self
ParseArity(kind) == IF kind = "Summarization" THEN 2 ELSE 3

\* message_parser(task_result, task_results, language)
CallParser(kind, tr, language) ==
    IF ParseArity(kind) # 3 THEN Raised("TypeError")
    ELSE CASE kind = "TrackNameSentiment" -> TrackNameSentimentParse(tr, language)
           [] kind = "Summarization" -> SummarizationParse(tr)
           [] kind = "Raising" -> Raised("Exception")
           [] kind = "Wrong" -> Raised("WrongResourceException")
           [] kind = "Fixed" -> Returned(FixedMessages)

\* the try/except with only the WrongResourceException clause
HandlerWithoutCatchAll(r) ==
    IF r.kind = "ok" THEN "extend"
    ELSE IF r.error = "WrongResourceException" THEN "continue"
    ELSE "propagate"

\* the try/except around one parser call
Handler(r) ==
    IF r.kind = "ok" THEN "extend"
    ELSE IF r.error = "WrongResourceException" THEN "continue"
    ELSE "log_error"

\* the filter on main_fact: facts is the set of facts seen so far
RECURSIVE UniqLoop(_, _, _)
UniqLoop(msgs, facts, uniq_messages) ==
    IF msgs = << >> THEN uniq_messages
    ELSE LET m == Head(msgs)
         IN  IF ~\E f \in facts : FactEq(main_fact(m), f)
             THEN UniqLoop(Tail(msgs), facts \cup {main_fact(m)}, Append(uniq_messages, m))
             ELSE UniqLoop(Tail(msgs), facts, uniq_messages)

\* the filter keeping the last message of each fact instead of the first
UniqLastWins(msgs) ==
    LET reversed(q) == [x \in 1..Len(q) |-> q[Len(q) + 1 - x]]
    IN  reversed(UniqLoop(reversed(msgs), {}, << >>))

Uniq(msgs) == UniqLoop(msgs, {}, << >>)

\* run without the final emptiness test
RunResultUnchecked(msgs) == "returned"

\* if not messages: raise NoMessagesForSelectionException()
RunResult(msgs) == IF msgs = << >> THEN "NoMessagesForSelectionException" ELSE "returned"

(* -------------------------------- inputs ------------------------------- *)
Payload(present, hasSummary, summary, entities, scores, overall) ==
    [isNone |-> FALSE,
     result |-> [present |-> present, hasSummary |-> hasSummary, summary |-> summary, entities |-> entities],
     sentence_scores |-> scores, overall |-> overall]

\* task_result is null or the key is missing
NonePayload ==
    [isNone |-> TRUE,
     result |-> [present |-> FALSE, hasSummary |-> FALSE, summary |-> << >>, entities |-> << >>],
     sentence_scores |-> << >>, overall |-> 0]

\* one year key of an entity: result[entity][year] and, under the same keys,
\* interestingness[entity][year] (taken to be there); year is int(key)
YearEntry(year, sentiment, interestingness) ==
    [year |-> year, sentiment |-> sentiment, interestingness |-> interestingness]

Entity(key, names, years) == [key |-> key, names |-> names, years |-> years]

EntityFoo == Entity("e1", <<[k |-> "en", v |-> "Foo"]>>, <<YearEntry(2000, 5, 10), YearEntry(2001, -3, 20)>>)

EntityZero == Entity("e2", << >>, <<YearEntry(2000, 0, 0)>>)

RecordKinds == {"unreportable", "empty", "absent", "null", "summ", "tns"}

\* one element of the JSON array, by kind
RawRecord(kind, uuid) ==
    [uuid |-> uuid, dataset |-> "d1",
     processor |-> CASE kind = "unreportable" -> "SplitByFacet"
                     [] kind \in {"empty", "absent", "summ"} -> "Summarization"
                     [] OTHER -> "TrackNameSentiment",
     task_result |-> CASE kind = "unreportable" -> Payload(TRUE, FALSE, << >>, <<EntityFoo>>, << >>, 0)
                       [] kind = "empty" -> Payload(TRUE, FALSE, << >>, << >>, << >>, 0)
                       [] kind = "absent" -> Payload(FALSE, FALSE, << >>, << >>, <<2>>, 5)
                       [] kind = "null" -> NonePayload
                       [] kind = "summ" -> Payload(TRUE, TRUE, <<"S1", "S2">>, << >>, <<2, 9>>, 5)
                       [] kind = "tns" -> Payload(TRUE, FALSE, << >>, <<EntityFoo, EntityZero>>, << >>, 0)]

\* TaskResult.from_dict : every field by o.get, a missing one is None
from_dict(o) ==
    [uuid |-> o.uuid, dataset |-> o.dataset, processor |-> o.processor, task_result |-> o.task_result]

\* the JSON array whose x-th element is of kind kinds[x] and has uuid x
BatchOf(kinds) == [x \in 1..Len(kinds) |-> RawRecord(kinds[x], x)]

ParserKinds == {"Summarization", "TrackNameSentiment", "Raising", "Wrong", "Fixed"}

Languages == {<<"en">>, <<"fi", "head">>}

(* -------------------------------- state -------------------------------- *)
VARIABLES
    data,       \* run's data argument: absent (None or ""), or the JSON array
    parsers,    \* registry.get("message-parsers")
    language,
    pc,         \* "start", "record", "parse", "done"; "call" for a lone function
    i,          \* index of the record the outer loop is at
    j,          \* index of the parser the inner loop is at
    messages,
    generation_succeeded,
    payloads,   \* PAYLOAD_ALL_LOGGING_PATH
    errored,    \* PAYLOAD_ERROR_LOGGING_PATH
    now,        \* modification time of the last file write
    outcome,    \* "running", "returned", or the exception run raised
    returned,   \* the messages run returned
    origin,     \* history: for each element of messages, the <<i, j>> that made it
    invoked,    \* history: the <<i, j>> for which a parser was called
    faulted,    \* history: the <<i, j>> whose call raised other than WrongResourceException
    writes,     \* history: the log_payload calls, [dir, uuid]
    rewrites,   \* number of writes to a uuid already written
    arg,        \* argument of a lone parse_messages call
    out         \* its outcome

vars == <<data, parsers, language, pc, i, j, messages, generation_succeeded, payloads, errored,
          now, outcome, returned, origin, invoked, faulted, writes, rewrites, arg, out>>

runVars == <<data, parsers, language, pc, i, j, messages, generation_succeeded, outcome, returned,
             origin, invoked, faulted>>

NoArg == [tr |-> from_dict(RawRecord("null", 0)), language |-> <<"en">>]

NoOut == Returned(<< >>)

task_results == [x \in 1..Len(data.batch) |-> from_dict(data.batch[x])]

Init ==
    /\ \/ data = [absent |-> TRUE, batch |-> << >>]
       \/ \E n \in 0..MaxBatch : \E kinds \in [1..n -> RecordKinds] :
              data = [absent |-> FALSE, batch |-> BatchOf(kinds)]
    /\ \E n \in 0..MaxParsers : parsers \in [1..n -> ParserKinds]
    /\ language \in Languages
    /\ pc = "start"
    /\ i = 0 /\ j = 0
    /\ messages = << >> /\ origin = << >>
    /\ generation_succeeded = FALSE
    /\ payloads = {} /\ errored = {}
    /\ now = 0
    /\ outcome = "running" /\ returned = << >>
    /\ invoked = {} /\ faulted = {}
    /\ writes = << >> /\ rewrites = 0
    /\ arg = NoArg /\ out = NoOut

(* ------------------------------- run ----------------------------------- *)
\* if not data: raise NoMessagesForSelectionException("No data at all!")
RunNoData ==
    /\ pc = "start" /\ data.absent
    /\ pc' = "done" /\ outcome' = "NoMessagesForSelectionException"
    /\ UNCHANGED <<data, parsers, language, i, j, messages, generation_succeeded, payloads, errored,
                   now, returned, origin, invoked, faulted, writes, rewrites, arg, out>>

\* json.loads, from_dict for every element, messages = []
RunLoad ==
    /\ pc = "start" /\ ~data.absent
    /\ pc' = "record" /\ i' = 1 /\ messages' = << >>
    /\ UNCHANGED <<data, parsers, language, j, generation_succeeded, payloads, errored,
                   now, outcome, returned, origin, invoked, faulted, writes, rewrites, arg, out>>

AtRecord == pc = "record" /\ i <= Len(data.batch)

\* processor in UNREPORTABLE_PROCESSORS: continue
RecordUnreportable ==
    /\ AtRecord
    /\ task_results[i].processor \in UNREPORTABLE_PROCESSORS
    /\ i' = i + 1
    /\ UNCHANGED <<data, parsers, language, pc, j, messages, generation_succeeded, payloads, errored,
                   now, outcome, returned, origin, invoked, faulted, writes, rewrites, arg, out>>

\* task_result.task_result is None: None.get raises AttributeError out of run
RecordNoneResult ==
    /\ AtRecord
    /\ task_results[i].processor \notin UNREPORTABLE_PROCESSORS
    /\ task_results[i].task_result.isNone
    /\ pc' = "done" /\ outcome' = "AttributeError"
    /\ UNCHANGED <<data, parsers, language, i, j, messages, generation_succeeded, payloads, errored,
                   now, returned, origin, invoked, faulted, writes, rewrites, arg, out>>

\* empty result section: log.error, continue
RecordEmptyResult ==
    /\ AtRecord
    /\ task_results[i].processor \notin UNREPORTABLE_PROCESSORS
    /\ ~task_results[i].task_result.isNone
    /\ ResultIsFalsy(task_results[i])
    /\ i' = i + 1
    /\ UNCHANGED <<data, parsers, language, pc, j, messages, generation_succeeded, payloads, errored,
                   now, outcome, returned, origin, invoked, faulted, writes, rewrites, arg, out>>

\* generation_succeeded = False; for message_parser in message_parsers
RecordDispatch ==
    /\ AtRecord
    /\ task_results[i].processor \notin UNREPORTABLE_PROCESSORS
    /\ ~task_results[i].task_result.isNone
    /\ ~ResultIsFalsy(task_results[i])
    /\ pc' = "parse" /\ j' = 1 /\ generation_succeeded' = FALSE
    /\ UNCHANGED <<data, parsers, language, i, messages, payloads, errored,
                   now, outcome, returned, origin, invoked, faulted, writes, rewrites, arg, out>>

\* one pass of the inner loop: the call and its try/except
InvokeParser ==
    /\ pc = "parse" /\ j <= Len(parsers)
    /\ LET r == CallParser(parsers[j], task_results[i], language)
           h == Handler(r)
       IN  /\ invoked' = invoked \cup {<<i, j>>}
           /\ faulted' = IF r.kind = "raise" /\ r.error # "WrongResourceException"
                         THEN faulted \cup {<<i, j>>} ELSE faulted
           /\ messages' = IF h = "extend" THEN messages \o r.msgs ELSE messages
           /\ origin' = IF h = "extend" THEN origin \o [x \in 1..Len(r.msgs) |-> <<i, j>>] ELSE origin
           /\ generation_succeeded' = (generation_succeeded \/ h = "extend")
           /\ IF h = "log_error"
              THEN /\ errored' = log_payload(errored, task_results[i].uuid, now + 1)
                   /\ now' = now + 1
                   /\ writes' = Append(writes, [dir |-> "errored", uuid |-> task_results[i].uuid])
              ELSE UNCHANGED <<errored, now, writes>>
           /\ IF h \in {"extend", "continue", "log_error"}
              THEN j' = j + 1 /\ UNCHANGED <<pc, outcome>>
              ELSE pc' = "done" /\ outcome' = r.error /\ UNCHANGED j
    /\ UNCHANGED <<data, parsers, language, i, payloads, returned, rewrites, arg, out>>

\* after the inner loop: the payload goes to one of the two directories
FinishRecord ==
    /\ pc = "parse" /\ j > Len(parsers)
    /\ IF ~generation_succeeded
       THEN /\ errored' = log_payload(errored, task_results[i].uuid, now + 1)
            /\ writes' = Append(writes, [dir |-> "errored", uuid |-> task_results[i].uuid])
            /\ UNCHANGED payloads
       ELSE /\ payloads' = log_payload(payloads, task_results[i].uuid, now + 1)
            /\ writes' = Append(writes, [dir |-> "payloads", uuid |-> task_results[i].uuid])
            /\ UNCHANGED errored
    /\ now' = now + 1
    /\ pc' = "record" /\ i' = i + 1
    /\ UNCHANGED <<data, parsers, language, j, messages, generation_succeeded, outcome, returned,
                   origin, invoked, faulted, rewrites, arg, out>>

\* after the outer loop: filter on main_fact, raise if nothing is left, return
Deduplicate ==
    /\ pc = "record" /\ i > Len(data.batch)
    /\ pc' = "done"
    /\ outcome' = RunResult(Uniq(messages))
    /\ returned' = IF RunResult(Uniq(messages)) = "returned" THEN Uniq(messages) ELSE << >>
    /\ UNCHANGED <<data, parsers, language, i, j, messages, generation_succeeded, payloads, errored,
                   now, origin, invoked, faulted, writes, rewrites, arg, out>>

Next ==
    \/ RunNoData
    \/ RunLoad
    \/ RecordUnreportable
    \/ RecordNoneResult
    \/ RecordEmptyResult
    \/ RecordDispatch
    \/ InvokeParser
    \/ FinishRecord
    \/ Deduplicate

Spec == Init /\ [][Next]_vars

(* ------------------- log_payload called over and over ------------------ *)
\* The directory is payloads; uuids are written in the order 1, 2, 3, ... and
\* up to MaxRewrites times a uuid written before is written again.
InitLog ==
    /\ data = [absent |-> TRUE, batch |-> << >>]
    /\ parsers = << >>
    /\ language = <<"en">>
    /\ pc = "log"
    /\ i = 0 /\ j = 0
    /\ messages = << >> /\ origin = << >>
    /\ generation_succeeded = FALSE
    /\ payloads = {} /\ errored = {}
    /\ now = 0
    /\ outcome = "running" /\ returned = << >>
    /\ invoked = {} /\ faulted = {}
    /\ writes = << >> /\ rewrites = 0
    /\ arg = NoArg /\ out = NoOut

WrittenUuids == {writes[x].uuid : x \in 1..Len(writes)}

LogNew ==
    /\ pc = "log"
    /\ Cardinality(WrittenUuids) < NumUuids
    /\ LET uuid == Cardinality(WrittenUuids) + 1
       IN  /\ payloads' = log_payload(payloads, uuid, now + 1)
           /\ writes' = Append(writes, [dir |-> "payloads", uuid |-> uuid])
    /\ now' = now + 1
    /\ UNCHANGED <<runVars, errored, rewrites, arg, out>>

\* a uuid written before: the oldest file, the newest file, or uuid 1 (which
\* may have been rotated out)
LogAgain ==
    /\ pc = "log"
    /\ rewrites < MaxRewrites
    /\ payloads # {}
    /\ \E uuid \in {1} \cup {f.uuid : f \in {g \in payloads :
                                \/ \A h \in payloads : g.mtime <= h.mtime
                                \/ \A h \in payloads : h.mtime <= g.mtime}} :
           /\ payloads' = log_payload(payloads, uuid, now + 1)
           /\ writes' = Append(writes, [dir |-> "payloads", uuid |-> uuid])
    /\ now' = now + 1
    /\ rewrites' = rewrites + 1
    /\ UNCHANGED <<runVars, errored, arg, out>>

NextLog == LogNew \/ LogAgain

SpecLog == InitLog /\ [][NextLog]_vars

(* ---------------- SummarizationResource.parse_messages ----------------- *)
SummaryTexts == {"S1", "S2"}

ScoreValues == {2, 9}

OverallValues == {-1, 0, 5}

SummarizationArg(processor, summary, scores, overall) ==
    [tr |-> [uuid |-> 1, dataset |-> "d1", processor |-> processor,
             task_result |-> Payload(TRUE, TRUE, summary, << >>, scores, overall)],
     language |-> <<"en">>]

InitCall(a) ==
    /\ data = [absent |-> TRUE, batch |-> << >>]
    /\ parsers = << >>
    /\ language = <<"en">>
    /\ pc = "call"
    /\ i = 0 /\ j = 0
    /\ messages = << >> /\ origin = << >>
    /\ generation_succeeded = FALSE
    /\ payloads = {} /\ errored = {}
    /\ now = 0
    /\ outcome = "running" /\ returned = << >>
    /\ invoked = {} /\ faulted = {}
    /\ writes = << >> /\ rewrites = 0
    /\ arg = a /\ out = NoOut

InitSummarization ==
    \E processor \in {"Summarization", "TrackNameSentiment"} :
    \E n \in 0..MaxSummaries : \E m \in 0..MaxSummaries :
    \E summary \in [1..n -> SummaryTexts] : \E scores \in [1..m -> ScoreValues] :
    \E overall \in OverallValues :
        InitCall(SummarizationArg(processor, summary, scores, overall))

\* parse_messages(task_result, context)
CallSummarization ==
    /\ pc = "call"
    /\ out' = SummarizationParse(arg.tr)
    /\ pc' = "called"
    /\ UNCHANGED <<data, parsers, language, i, j, messages, generation_succeeded, payloads, errored,
                   now, outcome, returned, origin, invoked, faulted, writes, rewrites, arg>>

SpecSummarization == InitSummarization /\ [][CallSummarization]_vars

(* -------------- TrackNameSentimentResource.parse_messages -------------- *)
NameMaps ==
    { << >>,
      <<[k |-> "en", v |-> "Foo"]>>,
      <<[k |-> "fi", v |-> "Foo"], [k |-> "en", v |-> "Bar"]>>,
      <<[k |-> "sv", v |-> "Bar"]>> }

\* (sentiment, interestingness) of one year
YearValues == {<<0, 0>>, <<5, 10>>, <<-3, 20>>}

EntityKeys == <<"e1", "e2", "e3", "e4">>

EntityShapes ==
    {[names |-> nm, y2000 |-> a, y2001 |-> b] : nm \in NameMaps, a \in YearValues, b \in YearValues}

EntityOf(key, shape) ==
    Entity(key, shape.names,
           <<YearEntry(2000, shape.y2000[1], shape.y2000[2]), YearEntry(2001, shape.y2001[1], shape.y2001[2])>>)

TrackNameSentimentArg(shapes, lang) ==
    [tr |-> [uuid |-> 1, dataset |-> "d1", processor |-> "TrackNameSentiment",
             task_result |-> Payload(TRUE, FALSE, << >>,
                                     [x \in 1..Len(shapes) |-> EntityOf(EntityKeys[x], shapes[x])],
                                     << >>, 0)],
     language |-> lang]

InitTrackNameSentiment ==
    \/ \E n \in 0..MaxEntities : \E shapes \in [1..n -> EntityShapes] : \E lang \in Languages :
           InitCall(TrackNameSentimentArg(shapes, lang))
    \/ \E lang \in Languages :
           InitCall([tr |-> from_dict(RawRecord("summ", 1)), language |-> lang])

\* parse_messages(task_result, context, language)
CallTrackNameSentiment ==
    /\ pc = "call"
    /\ out' = TrackNameSentimentParse(arg.tr, arg.language)
    /\ pc' = "called"
    /\ UNCHANGED <<data, parsers, language, i, j, messages, generation_succeeded, payloads, errored,
                   now, outcome, returned, origin, invoked, faulted, writes, rewrites, arg>>

SpecTrackNameSentiment == InitTrackNameSentiment /\ [][CallTrackNameSentiment]_vars

(* ======================= properties of run ============================= *)
NoData == "NoMessagesForSelectionException"

NumRecords == Len(data.batch)

\* the outer loop is over with record x
Handled(x) == pc # "start" /\ i > x

\* record x passes both skip tests of the outer loop
Reportable(x) ==
    /\ data.batch[x].processor \notin {"FindBestSplitFromTimeseries", "SplitByFacet", "ExpandQuery"}
    /\ ~data.batch[x].task_result.isNone
    /\ data.batch[x].task_result.result.present
    /\ \/ data.batch[x].task_result.result.hasSummary
       \/ data.batch[x].task_result.result.entities # << >>

\* what parser y yields for record x when called as the dispatcher calls it
Yield(x, y) == CallParser(parsers[y], from_dict(data.batch[x]), language)

\* the messages in the accumulated sequence that the call <<x, y>> made
RECURSIVE MadeBy(_, _, _)
MadeBy(msgs, from, xy) ==
    IF msgs = << >> THEN << >>
    ELSE (IF Head(from) = xy THEN <<Head(msgs)>> ELSE << >>) \o MadeBy(Tail(msgs), Tail(from), xy)

Written(dir, uuid) == \E w \in 1..Len(writes) : writes[w] = [dir |-> dir, uuid |-> uuid]

\* the subsequence of msgs that keeps a message iff no earlier one has an equal main fact
RECURSIVE KeepFirst(_, _)
KeepFirst(msgs, upto) ==
    IF upto = 0 THEN << >>
    ELSE KeepFirst(msgs, upto - 1) \o
         (IF \E e \in 1..(upto - 1) : msgs[e].facts[1] = msgs[upto].facts[1]
          THEN << >> ELSE <<msgs[upto]>>)

\* C1: run never aborts a batch because one record is malformed: in a batch
\* in which some record yields messages, whatever the other records are, run
\* raises nothing and returns.
C1_NeverAbortsOnMalformedRecord ==
    (/\ ~data.absent
     /\ \E x \in 1..NumRecords : Reportable(x) /\
            \E y \in 1..Len(parsers) : Yield(x, y).kind = "ok" /\ Yield(x, y).msgs # << >>)
    => /\ outcome \in {"running", "returned"}
       /\ pc = "done" => outcome = "returned"

\* C2: a parser that raises a fault while parsing record x stops nothing: the
\* payload of x is written to the error directory, run goes on, every later
\* parser is called on x and every parser on every later reportable record, and
\* what those calls return is in the accumulated messages.
C2_FaultIsolation ==
    \A f \in faulted :
        /\ Written("errored", data.batch[f[1]].uuid)
        /\ outcome \in {"running", "returned", NoData, "AttributeError"}
        /\ outcome = "AttributeError" => data.batch[i].task_result.isNone
        /\ (pc = "done" /\ outcome \in {"returned", NoData}) => i = NumRecords + 1
        /\ i > f[1] \/ (i = f[1] /\ pc = "parse" /\ j > f[2])
        /\ \A x \in f[1]..NumRecords : \A y \in 1..Len(parsers) :
               (/\ x > f[1] \/ y > f[2]
                /\ Reportable(x)
                /\ Handled(x) \/ (i = x /\ pc = "parse" /\ j > y))
               => /\ <<x, y>> \in invoked
                  /\ MadeBy(messages, origin, <<x, y>>) = Yield(x, y).msgs

C2_Witness ==
    /\ pc = "done" /\ outcome = "returned"
    /\ \E f \in faulted :
           /\ parsers[f[2]] = "Raising"
           /\ f[1] < NumRecords /\ f[2] < Len(parsers)
           /\ \E k \in 1..Len(origin) : origin[k][1] = f[1] /\ origin[k][2] > f[2]
           /\ \E k \in 1..Len(origin) : origin[k][1] > f[1]

\* C3: the payload of a dispatched record is written to the success directory
\* iff some parser produced at least one message for it; when none did, it is
\* written to the error directory and not to the success directory.
C3_CaptureRouting ==
    \A x \in 1..NumRecords :
        (Reportable(x) /\ Handled(x)) =>
            LET produced == \E k \in 1..Len(origin) : origin[k][1] = x
            IN  /\ Written("payloads", data.batch[x].uuid) <=> produced
                /\ ~produced => Written("errored", data.batch[x].uuid)

\* C4: run returns exactly the accumulated messages (record order, then parser
\* order, then the order a parser returned them) without every message whose
\* main fact equals that of an earlier one; no two returned messages have equal
\* main facts.
C4_FirstWinsDedup ==
    /\ \A k \in 1..Len(origin) : \A e \in 1..(k - 1) :
           origin[e][1] < origin[k][1] \/ (origin[e][1] = origin[k][1] /\ origin[e][2] <= origin[k][2])
    /\ \A xy \in invoked :
           (Handled(xy[1]) \/ (i = xy[1] /\ pc = "parse" /\ j > xy[2]))
           => MadeBy(messages, origin, xy) = Yield(xy[1], xy[2]).msgs
    /\ (pc = "done" /\ outcome = "returned") =>
           /\ returned = KeepFirst(messages, Len(messages))
           /\ \A a \in 1..Len(returned) : \A b \in 1..Len(returned) :
                  returned[a].facts[1] = returned[b].facts[1] => a = b

C4_Witness ==
    /\ pc = "done" /\ outcome = "returned"
    /\ Len(returned) >= 2 /\ Len(returned) < Len(messages)
    /\ \E a \in 1..Len(messages) : \E b \in 1..Len(messages) :
           /\ a < b /\ origin[a][2] # origin[b][2]
           /\ messages[a].facts[1] = messages[b].facts[1]
    /\ \E a \in 1..Len(messages) : \E b \in 1..Len(messages) :
           a < b /\ origin[a] = origin[b] /\ messages[a] = messages[b]

\* C5: run never returns an empty sequence; absent data, and an accumulated
\* sequence of which nothing is left, end in NoMessagesForSelectionException.
C5_NeverReturnsEmpty ==
    /\ outcome = "returned" => Len(returned) >= 1
    /\ (pc = "done" /\ data.absent) => outcome = NoData
    /\ (pc = "done" /\ ~data.absent /\ i > NumRecords /\ KeepFirst(messages, Len(messages)) = << >>)
       => outcome = NoData

C5_Witness ==
    /\ pc = "done" /\ outcome = NoData
    /\ ~data.absent /\ NumRecords >= 1 /\ invoked # {}

C5_WitnessReturned == pc = "done" /\ outcome = "returned" /\ Len(returned) >= 1

\* C9: a record whose processor is unreportable, or whose task_result has an
\* empty or absent result subsection, is skipped without a trace: no parser is
\* called on it, no message comes from it, no file of its uuid is written to
\* either directory.
Skipped(x) ==
    \/ data.batch[x].processor \in {"FindBestSplitFromTimeseries", "SplitByFacet", "ExpandQuery"}
    \/ /\ ~data.batch[x].task_result.isNone
       /\ \/ ~data.batch[x].task_result.result.present
          \/ /\ ~data.batch[x].task_result.result.hasSummary
             /\ data.batch[x].task_result.result.entities = << >>

C9_SkippedLeaveNoTrace ==
    \A x \in 1..NumRecords :
        Skipped(x) =>
            /\ \A y \in 1..Len(parsers) : <<x, y>> \notin invoked
            /\ \A k \in 1..Len(origin) : origin[k][1] # x
            /\ ~Written("payloads", data.batch[x].uuid) /\ ~Written("errored", data.batch[x].uuid)
            /\ \A file \in payloads \cup errored : file.uuid # data.batch[x].uuid
            /\ (pc = "record" /\ i = x) => ENABLED (RecordUnreportable \/ RecordEmptyResult)

C9_Witness ==
    /\ pc = "done" /\ outcome = "returned"
    /\ NumRecords = 2 /\ Skipped(1) /\ ~Skipped(2)
    /\ data.batch[1].processor = "Summarization"
    /\ invoked # {} /\ payloads # {}

C9_WitnessUnreportable ==
    /\ pc = "done" /\ outcome = "returned"
    /\ NumRecords = 2 /\ ~Skipped(1) /\ Skipped(2)
    /\ data.batch[2].processor = "SplitByFacet"
    /\ errored # {} /\ payloads # {}

\* C10: a Summarization or TrackNameSentiment parser called by the dispatcher
\* on a record of another processor returns an empty sequence and raises
\* nothing, so the call writes no error capture.
C10_NotApplicableIsNoFailure ==
    \A xy \in invoked :
        (parsers[xy[2]] \in {"Summarization", "TrackNameSentiment"}
         /\ data.batch[xy[1]].processor # parsers[xy[2]])
        => /\ xy \notin faulted
           /\ Yield(xy[1], xy[2]) = Returned(<< >>)

(* ===================== properties of log_payload ======================= *)
FileUuids(dir) == {f.uuid : f \in dir}

\* the distinct uuids of writes[1..w], most recently written first
RECURSIVE RecentFirst(_, _)
RecentFirst(w, later) ==
    IF w = 0 THEN << >>
    ELSE IF writes[w].uuid \in later THEN RecentFirst(w - 1, later)
    ELSE <<writes[w].uuid>> \o RecentFirst(w - 1, later \cup {writes[w].uuid})

\* the 25 most recently written distinct uuids (all of them if there are fewer)
MostRecentlyWritten ==
    LET recent == RecentFirst(Len(writes), {})
    IN  {recent[x] : x \in 1..Min2(25, Len(recent))}

C6_WitnessRewrite ==
    /\ pc = "log"
    /\ Len(writes) = 29 /\ writes[27].uuid = 2 /\ writes[29].uuid = 28
    /\ FileUuids(payloads) = {2} \cup (5..28)

(* ============ properties of SummarizationResource.parse_messages ======= *)
NumPairs == Min2(Len(arg.tr.task_result.result.summary), Len(arg.tr.task_result.sentence_scores))

PairOutlierness(x) == arg.tr.task_result.sentence_scores[x] * arg.tr.task_result.overall

\* the first pair of maximum outlierness
FirstMaximum ==
    CHOOSE x \in 1..NumPairs :
        /\ \A y \in 1..NumPairs : PairOutlierness(y) <= PairOutlierness(x)
        /\ \A y \in 1..(x - 1) : PairOutlierness(y) < PairOutlierness(x)

\* C7: on a Summarization record with N >= 1 (summary, score) pairs the call
\* returns exactly one message, that of the first pair of maximum outlierness;
\* N = 1 included.
C7_ExactlyOneMaximum ==
    (pc = "called" /\ arg.tr.processor = "Summarization" /\ NumPairs >= 1) =>
        /\ out.kind = "ok"
        /\ Len(out.msgs) = 1
        /\ out.msgs[1].facts[1].result_value = Str(arg.tr.task_result.result.summary[FirstMaximum])
        /\ out.msgs[1].facts[1].outlierness = Num(PairOutlierness(FirstMaximum))
        /\ out.msgs[1].facts[1].analysis_type = "Summarization"

\* the same for two pairs or more
C7_TwoOrMore ==
    (pc = "called" /\ arg.tr.processor = "Summarization" /\ NumPairs >= 2) =>
        /\ out.kind = "ok"
        /\ Len(out.msgs) = 1
        /\ out.msgs[1].facts[1].result_value = Str(arg.tr.task_result.result.summary[FirstMaximum])
        /\ out.msgs[1].facts[1].outlierness = Num(PairOutlierness(FirstMaximum))

(* ========= properties of TrackNameSentimentResource.parse_messages ===== *)
ArgEntities == arg.tr.task_result.result.entities

\* entity x keeps at least one year
Retains(x) == \E y \in 1..Len(ArgEntities[x].years) :
                  ArgEntities[x].years[y].sentiment # 0 \/ ArgEntities[x].years[y].interestingness # 0

DisplayName(x) == EntityName(ArgEntities[x], arg.language[1])

CountOf(key, analysis_type) ==
    Cardinality({m \in 1..Len(out.msgs) :
                    /\ out.msgs[m].facts[1].result_key = key
                    /\ out.msgs[m].facts[1].analysis_type = analysis_type})

\* C8: every entity key that keeps a year contributes exactly four messages
\* (CountYears, Mean, Min, Max), every entity whose years are all (0, 0)
\* contributes none, whatever the other entities of the record are.
C8_FourMessagesPerEntity ==
    (pc = "called" /\ arg.tr.processor = "TrackNameSentiment") =>
        /\ out.kind = "ok"
        /\ Len(out.msgs) = 4 * Cardinality({x \in 1..Len(ArgEntities) : Retains(x)})
        /\ \A x \in 1..Len(ArgEntities) :
               \A t \in {"TrackNameSentiment:CountYears", "TrackNameSentiment:Mean",
                         "TrackNameSentiment:Min", "TrackNameSentiment:Max"} :
                   CountOf(EntityKey(DisplayName(x)), t) =
                       Cardinality({z \in 1..Len(ArgEntities) : Retains(z) /\ DisplayName(z) = DisplayName(x)})

\* the same for records whose entities have different display names
C8_DistinctNames ==
    (pc = "called" /\ arg.tr.processor = "TrackNameSentiment"
     /\ \A x \in 1..Len(ArgEntities) : \A z \in 1..Len(ArgEntities) : DisplayName(x) = DisplayName(z) => x = z) =>
        /\ out.kind = "ok"
        /\ Len(out.msgs) = 4 * Cardinality({x \in 1..Len(ArgEntities) : Retains(x)})

(* ============ timestamps of the facts parse_messages returns =========== *)
\* the years entity x keeps
KeptYears(x) ==
    {ArgEntities[x].years[y] : y \in {z \in 1..Len(ArgEntities[x].years) :
        ArgEntities[x].years[z].sentiment # 0 \/ ArgEntities[x].years[z].interestingness # 0}}

\* the entities of the record that keep a year and whose display name is in key
Owners(key) == {x \in 1..Len(ArgEntities) : Retains(x) /\ EntityKey(DisplayName(x)) = key}

\* the span of fact is [minYear, maxYear] of an entity it is about
SpansAllYears(fact) ==
    \E x \in Owners(fact.result_key) :
        /\ \E e \in KeptYears(x) : fact.timestamp_from = Num(e.year) /\ \A o \in KeptYears(x) : e.year <= o.year
        /\ \E e \in KeptYears(x) : fact.timestamp_to = Num(e.year) /\ \A o \in KeptYears(x) : o.year <= e.year

\* fact is at the one year of least (sign = 1) or greatest (sign = -1) sentiment
AtExtremalYear(fact, sign) ==
    /\ fact.timestamp_from = fact.timestamp_to
    /\ \E x \in Owners(fact.result_key) : \E e \in KeptYears(x) :
           /\ fact.timestamp_from = Num(e.year)
           /\ \A o \in KeptYears(x) : sign * e.sentiment <= sign * o.sentiment

\* timestamp_type and the two timestamps of fact are those its analysis type calls for
TimestampsMatch(fact) ==
    CASE fact.analysis_type = "Summarization" ->
             /\ fact.timestamp_type = "all_time"
             /\ fact.timestamp_from = NoneVal /\ fact.timestamp_to = NoneVal
      [] fact.analysis_type \in {"TrackNameSentiment:CountYears", "TrackNameSentiment:Mean"} ->
             fact.timestamp_type = "between_years" /\ SpansAllYears(fact)
      [] fact.analysis_type = "TrackNameSentiment:Min" ->
             fact.timestamp_type = "during_year" /\ AtExtremalYear(fact, 1)
      [] fact.analysis_type = "TrackNameSentiment:Max" ->
             fact.timestamp_type = "during_year" /\ AtExtremalYear(fact, -1)
      [] OTHER -> FALSE

\* C11: every fact the resource returns has the timestamp_type that matches
\* its timestamps: Summarization all_time with both timestamps None; CountYears
\* and Mean between_years over [minYear, maxYear]; Min and Max during_year with
\* timestamp_from = timestamp_to = the extremal year.
C11_TimestampTypeMatches ==
    (pc = "called" /\ out.kind = "ok") =>
        \A m \in 1..Len(out.msgs) : TimestampsMatch(out.msgs[m].facts[1])

\* the same for every fact but Max, whose timestamps are the year of greatest
\* sentiment under the type between_years
C11_AllButMaxType ==
    (pc = "called" /\ out.kind = "ok") =>
        \A m \in 1..Len(out.msgs) :
            IF out.msgs[m].facts[1].analysis_type = "TrackNameSentiment:Max"
            THEN /\ out.msgs[m].facts[1].timestamp_type = "between_years"
                 /\ AtExtremalYear(out.msgs[m].facts[1], -1)
            ELSE TimestampsMatch(out.msgs[m].facts[1])

====
